---- MODULE Spec2Model ----
(***************************************************************************)
(* Behavioural model of migen/genlib/fifo.py: SyncFIFO, SyncFIFOClassic,   *)
(* SyncFIFOBuffered, SyncFIFORelaxed and AsyncFIFO.                        *)
(*                                                                         *)
(* One FIFO instance (dut) of class `variant` and capacity `depth` is      *)
(* constructed in Init.  A synchronous instance advances by one action per *)
(* clock tick: the action reads the inputs we, re, din, flush that are     *)
(* driven during the current cycle, computes every register of the         *)
(* instance (and of its submodules) from the combinational signals of the  *)
(* current cycle, and lets the environment drive new inputs.  AsyncFIFO    *)
(* has one action per clock domain.                                        *)
(***************************************************************************)
EXTENDS Integers, Sequences, FiniteSets, TLC

\* ------------------------------------------------------------------ bounds
MaxDepth == 3

Pow2(n) == 2 ^ n

Depths == 2..MaxDepth
\* the FIFOs only move data and never inspect it: one-bit elements
Data == {0, 1}
MaxDepthBits == 2
AsyncDepths == {Pow2(k) : k \in 1..MaxDepthBits}

VARIABLES
    variant,    \* class of the instance under test
    depth,      \* constructor argument `depth`
    dut,        \* the registers and memory of the instance
    we, re, din, flush,   \* inputs driven during the current cycle
    ref,        \* SyncFIFO(depth+1) driven in lockstep (EquivSpec only)
    pending,    \* history: committed-but-unread elements, oldest first
    unread,     \* history: committed writes minus committed reads
    last        \* history: inputs and handshake outputs of the last tick

vars ==
    <<variant, depth, dut, we, re, din, flush, ref, pending, unread, last>>

\* ------------------------------------------------------- substrate helpers
RECURSIVE bits_for(_)
bits_for(n) == IF n < 2 THEN 1 ELSE 1 + bits_for(n \div 2)

SafeTail(s) == IF s = <<>> THEN <<>> ELSE Tail(s)

\* ---------------------------------------------------------------- _inc
\* variant: the counter always wraps at 2**width
_inc_wrap_at_width(signal, modulo, width) == (signal + 1) % Pow2(width)

_inc(signal, modulo, width) ==
    IF modulo = Pow2(width)
    THEN (signal + 1) % Pow2(width)
    ELSE IF signal = modulo - 1 THEN 0 ELSE (signal + 1) % Pow2(width)

\* ------------------------------------------------------------- SyncFIFO
\* f = [produce, consume, level, storage]; d = depth
SyncFIFO_init(d, mem) ==
    [produce |-> 0, consume |-> 0, level |-> 0, storage |-> mem]

\* variant: the full test is off by one
SyncFIFO_writable_off_by_one(f, d) == f.level # d + 1

SyncFIFO_writable(f, d) == f.level # d
SyncFIFO_readable(f) == f.level # 0
\* variant: read port addressed by the write pointer
SyncFIFO_dout_at_produce(f) == f.storage[f.produce]

SyncFIFO_dout(f) == f.storage[f.consume]
\* variant: we is not gated by writable
SyncFIFO_do_write_ungated(f, d, i_we) == i_we

SyncFIFO_do_write(f, d, i_we) == SyncFIFO_writable(f, d) /\ i_we
SyncFIFO_do_read(f, i_re) == SyncFIFO_readable(f) /\ i_re

SyncFIFO_produce(f, d, i_we, i_flush) ==
    IF i_flush THEN 0
    ELSE IF SyncFIFO_do_write(f, d, i_we)
         THEN _inc(f.produce, d, bits_for(d - 1))
         ELSE f.produce

SyncFIFO_consume(f, d, i_re, i_flush) ==
    IF i_flush THEN 0
    ELSE IF SyncFIFO_do_read(f, i_re)
         THEN _inc(f.consume, d, bits_for(d - 1))
         ELSE f.consume

SyncFIFO_level(f, d, i_we, i_re, i_flush) ==
    IF i_flush THEN 0
    ELSE IF SyncFIFO_do_write(f, d, i_we)
         THEN IF ~SyncFIFO_do_read(f, i_re)
              THEN (f.level + 1) % Pow2(bits_for(d))
              ELSE f.level
         ELSE IF SyncFIFO_do_read(f, i_re)
              THEN (f.level - 1) % Pow2(bits_for(d))
              ELSE f.level

SyncFIFO_storage(f, d, i_we, i_din) ==
    IF SyncFIFO_do_write(f, d, i_we)
    THEN [f.storage EXCEPT ![f.produce] = i_din]
    ELSE f.storage

SyncFIFO_tick(f, d, i_we, i_re, i_din, i_flush) ==
    [produce |-> SyncFIFO_produce(f, d, i_we, i_flush),
     consume |-> SyncFIFO_consume(f, d, i_re, i_flush),
     level   |-> SyncFIFO_level(f, d, i_we, i_re, i_flush),
     storage |-> SyncFIFO_storage(f, d, i_we, i_din)]

\* ------------------------------------------------------ SyncFIFOClassic
\* c = [fifo, dout_bits]; we, re, readable, writable, flush and level are
\* the inner SyncFIFO's own signals.
SyncFIFOClassic_init(d, mem) ==
    [fifo |-> SyncFIFO_init(d, mem), dout_bits |-> 0]

SyncFIFOClassic_writable(c, d) == SyncFIFO_writable(c.fifo, d)
SyncFIFOClassic_readable(c) == SyncFIFO_readable(c.fifo)

\* variant: the output register is loaded whenever re is asserted
SyncFIFOClassic_dout_bits_on_re(c, i_re) ==
    IF i_re THEN SyncFIFO_dout(c.fifo) ELSE c.dout_bits

SyncFIFOClassic_dout_bits(c, i_re) ==
    IF i_re /\ SyncFIFOClassic_readable(c)
    THEN SyncFIFO_dout(c.fifo)
    ELSE c.dout_bits

SyncFIFOClassic_tick(c, d, i_we, i_re, i_din, i_flush) ==
    [fifo      |-> SyncFIFO_tick(c.fifo, d, i_we, i_re, i_din, i_flush),
     dout_bits |-> SyncFIFOClassic_dout_bits(c, i_re)]

\* ----------------------------------------------------- SyncFIFOBuffered
\* b = [fifo, readable]; fifo is the SyncFIFOClassic submodule.
SyncFIFOBuffered_init(d, mem) ==
    [fifo |-> SyncFIFOClassic_init(d, mem), readable |-> FALSE]

SyncFIFOBuffered_writable(b, d) == SyncFIFOClassic_writable(b.fifo, d)
SyncFIFOBuffered_dout(b) == b.fifo.dout_bits
SyncFIFOBuffered_level(b) == b.fifo.fifo.level

\* variant: the inner queue is pulled only while the latch is empty
SyncFIFOBuffered_fifo_re_empty_only(b, i_re) ==
    SyncFIFOClassic_readable(b.fifo) /\ ~b.readable

SyncFIFOBuffered_fifo_re(b, i_re) ==
    SyncFIFOClassic_readable(b.fifo) /\ (~b.readable \/ i_re)

\* variant: the caller's re is tested before the inner pull
SyncFIFOBuffered_readable_re_first(b, i_re, i_flush) ==
    IF i_flush THEN FALSE
    ELSE IF i_re THEN FALSE
    ELSE IF SyncFIFOBuffered_fifo_re(b, i_re) THEN TRUE
    ELSE b.readable

\* variant: flush does not clear the readable latch
SyncFIFOBuffered_readable_noflush(b, i_re, i_flush) ==
    IF SyncFIFOBuffered_fifo_re(b, i_re) THEN TRUE
    ELSE IF i_re THEN FALSE
    ELSE b.readable

SyncFIFOBuffered_readable(b, i_re, i_flush) ==
    IF i_flush THEN FALSE
    ELSE IF SyncFIFOBuffered_fifo_re(b, i_re) THEN TRUE
    ELSE IF i_re THEN FALSE
    ELSE b.readable

SyncFIFOBuffered_tick(b, d, i_we, i_re, i_din, i_flush) ==
    [fifo     |-> SyncFIFOClassic_tick(b.fifo, d, i_we,
                      SyncFIFOBuffered_fifo_re(b, i_re), i_din, i_flush),
     readable |-> SyncFIFOBuffered_readable(b, i_re, i_flush)]

\* ------------------------------------------------------ SyncFIFORelaxed
\* r = [fifo, dout, dout_readable, buff, buff_readable]
SyncFIFORelaxed_init(d, mem) ==
    [fifo |-> SyncFIFO_init(d, mem),
     dout |-> 0, dout_readable |-> FALSE,
     buff |-> 0, buff_readable |-> FALSE]

SyncFIFORelaxed_writable(r, d) == SyncFIFO_writable(r.fifo, d)
SyncFIFORelaxed_readable(r) == r.buff_readable \/ r.dout_readable
SyncFIFORelaxed_dout_bits(r) == IF r.buff_readable THEN r.buff ELSE r.dout
SyncFIFORelaxed_level(r) ==
    r.fifo.level + (IF r.buff_readable THEN 1 ELSE 0)

\* variant: the shunt ignores a stalled output stage
SyncFIFORelaxed_do_shunt_unstalled(r, i_we, i_re) ==
    i_we /\ ~SyncFIFO_readable(r.fifo)

SyncFIFORelaxed_do_shunt(r, i_we, i_re) ==
    i_we /\ ~SyncFIFO_readable(r.fifo)
         /\ ~(SyncFIFORelaxed_readable(r) /\ ~i_re)

\* variant: the inner queue is written even when the write is shunted
SyncFIFORelaxed_fifo_we_always(r, i_we, i_re) == i_we

SyncFIFORelaxed_fifo_we(r, i_we, i_re) ==
    i_we /\ ~SyncFIFORelaxed_do_shunt(r, i_we, i_re)

\* variant: the inner read is held back by the bypass cell only
SyncFIFORelaxed_fifo_re_buff_only(r, i_re) ==
    i_re \/ ~r.buff_readable

SyncFIFORelaxed_fifo_re(r, i_re) ==
    i_re \/ ~SyncFIFORelaxed_readable(r)

\* variant: flush does not clear the output register's valid bit
SyncFIFORelaxed_dout_readable_noflush(r, i_flush) == SyncFIFO_readable(r.fifo)

SyncFIFORelaxed_dout_readable(r, i_flush) ==
    IF i_flush THEN FALSE ELSE SyncFIFO_readable(r.fifo)

SyncFIFORelaxed_buff(r, i_we, i_re, i_din) ==
    IF SyncFIFORelaxed_do_shunt(r, i_we, i_re) THEN i_din
    ELSE IF ~i_re /\ ~r.buff_readable THEN r.dout
    ELSE r.buff

\* variant: the mirror of the dout register takes priority over the shunt
SyncFIFORelaxed_buff_readable_mirror_first(r, i_we, i_re, i_flush) ==
    IF i_flush THEN FALSE
    ELSE IF ~i_re /\ ~r.buff_readable THEN r.dout_readable
    ELSE IF SyncFIFORelaxed_do_shunt(r, i_we, i_re) THEN TRUE
    ELSE IF i_re /\ r.buff_readable THEN FALSE
    ELSE r.buff_readable

SyncFIFORelaxed_buff_readable(r, i_we, i_re, i_flush) ==
    IF i_flush THEN FALSE
    ELSE IF SyncFIFORelaxed_do_shunt(r, i_we, i_re) THEN TRUE
    ELSE IF ~i_re /\ ~r.buff_readable THEN r.dout_readable
    ELSE IF i_re /\ r.buff_readable THEN FALSE
    ELSE r.buff_readable

SyncFIFORelaxed_tick(r, d, i_we, i_re, i_din, i_flush) ==
    [fifo          |-> SyncFIFO_tick(r.fifo, d,
                           SyncFIFORelaxed_fifo_we(r, i_we, i_re),
                           SyncFIFORelaxed_fifo_re(r, i_re), i_din, i_flush),
     dout          |-> SyncFIFO_dout(r.fifo),
     dout_readable |-> SyncFIFORelaxed_dout_readable(r, i_flush),
     buff          |-> SyncFIFORelaxed_buff(r, i_we, i_re, i_din),
     buff_readable |-> SyncFIFORelaxed_buff_readable(r, i_we, i_re, i_flush)]

\* ---------------------------------------------- GrayCounter, MultiReg
\* (migen.genlib.cdc)  g = [q, q_binary]; w = counter width
RECURSIVE Xor(_, _, _)
Xor(a, b, w) ==
    IF w = 0 THEN 0
    ELSE ((a + b) % 2) + 2 * Xor(a \div 2, b \div 2, w - 1)

Bit(x, i) == (x \div Pow2(i)) % 2

GrayCounter_init == [q |-> 0, q_binary |-> 0]

GrayCounter_q_next_binary(g, ce, w) ==
    IF ce THEN (g.q_binary + 1) % Pow2(w) ELSE g.q_binary

GrayCounter_q_next(g, ce, w) ==
    LET nb == GrayCounter_q_next_binary(g, ce, w) IN Xor(nb, nb \div 2, w)

GrayCounter_tick(g, ce, w) ==
    [q        |-> GrayCounter_q_next(g, ce, w),
     q_binary |-> GrayCounter_q_next_binary(g, ce, w)]

MultiRegStages == 2

MultiReg_init == [k \in 1..MultiRegStages |-> 0]
MultiReg_o(regs) == regs[Len(regs)]
MultiReg_tick(regs, i) == <<i>> \o SubSeq(regs, 1, Len(regs) - 1)

\* ------------------------------------------------------------ AsyncFIFO
\* a = [produce, consume, produce_rdomain, consume_wdomain, storage, dat_r]
\* produce, consume: GrayCounter(depth_bits+1); *_rdomain / *_wdomain: the
\* MultiReg chains; dat_r: data register of the synchronous read port.
RECURSIVE log2_int(_)
log2_int(n) == IF n <= 1 THEN 0 ELSE 1 + log2_int((n + 1) \div 2)

AsyncFIFO_init(d, mem, r0) ==
    [produce |-> GrayCounter_init, consume |-> GrayCounter_init,
     produce_rdomain |-> MultiReg_init, consume_wdomain |-> MultiReg_init,
     storage |-> mem, dat_r |-> r0]

\* variant: the full test of binary pointers (top bits differ, all other
\* bits equal) applied to the Gray pointers
AsyncFIFO_writable_binary_test(a, d) ==
    LET w == log2_int(d) + 1
        p == a.produce.q
        c == MultiReg_o(a.consume_wdomain)
    IN  \/ Bit(p, w - 1) = Bit(c, w - 1)
        \/ (p % Pow2(w - 1)) # (c % Pow2(w - 1))

\* variant: the low bits are left out of the comparison
AsyncFIFO_writable_no_low_bits(a, d) ==
    LET w == log2_int(d) + 1
        p == a.produce.q
        c == MultiReg_o(a.consume_wdomain)
    IN  \/ Bit(p, w - 1) = Bit(c, w - 1)
        \/ Bit(p, w - 2) = Bit(c, w - 2)

\* variant: the two-bit case compares the top bit only
AsyncFIFO_writable_top_bit(a, d) ==
    LET depth_bits == log2_int(d)
        w == depth_bits + 1
        p == a.produce.q
        c == MultiReg_o(a.consume_wdomain)
    IN  IF depth_bits = 1
        THEN Bit(p, w - 1) = Bit(c, w - 1)
        ELSE \/ Bit(p, w - 1) = Bit(c, w - 1)
             \/ Bit(p, w - 2) = Bit(c, w - 2)
             \/ (p % Pow2(w - 2)) # (c % Pow2(w - 2))

AsyncFIFO_writable(a, d) ==
    LET depth_bits == log2_int(d)
        w == depth_bits + 1
        p == a.produce.q
        c == MultiReg_o(a.consume_wdomain)
    IN  IF depth_bits = 1
        THEN \/ Bit(p, w - 1) = Bit(c, w - 1)
             \/ Bit(p, w - 2) = Bit(c, w - 2)
        ELSE \/ Bit(p, w - 1) = Bit(c, w - 1)
             \/ Bit(p, w - 2) = Bit(c, w - 2)
             \/ (p % Pow2(w - 2)) # (c % Pow2(w - 2))

AsyncFIFO_readable(a) == a.consume.q # MultiReg_o(a.produce_rdomain)

AsyncFIFO_produce_ce(a, d, i_we) == AsyncFIFO_writable(a, d) /\ i_we
AsyncFIFO_consume_ce(a, i_re) == AsyncFIFO_readable(a) /\ i_re

AsyncFIFO_dout(a) == a.dat_r

AsyncFIFO_wrport(a, d, i_we, i_din) ==
    IF AsyncFIFO_produce_ce(a, d, i_we)
    THEN [a.storage EXCEPT ![a.produce.q_binary % Pow2(log2_int(d))] = i_din]
    ELSE a.storage

\* variant: the read port addressed by the current consume value
AsyncFIFO_rdport_q_binary(a, d, i_re) ==
    a.storage[a.consume.q_binary % Pow2(log2_int(d))]

AsyncFIFO_rdport(a, d, i_re) ==
    a.storage[GrayCounter_q_next_binary(a.consume,
                  AsyncFIFO_consume_ce(a, i_re), log2_int(d) + 1)
              % Pow2(log2_int(d))]

\* variant: the consume pointer is not resampled in the write domain
AsyncFIFO_write_tick_no_resync(a, d, i_we, i_din) ==
    [a EXCEPT
       !.produce = GrayCounter_tick(a.produce,
                       AsyncFIFO_produce_ce(a, d, i_we), log2_int(d) + 1),
       !.storage = AsyncFIFO_wrport(a, d, i_we, i_din)]

\* one tick of clock domain "write"
AsyncFIFO_write_tick(a, d, i_we, i_din) ==
    [a EXCEPT
       !.produce = GrayCounter_tick(a.produce,
                       AsyncFIFO_produce_ce(a, d, i_we), log2_int(d) + 1),
       !.consume_wdomain = MultiReg_tick(a.consume_wdomain, a.consume.q),
       !.storage = AsyncFIFO_wrport(a, d, i_we, i_din)]

\* variant: the binary produce counter is taken into the read domain
AsyncFIFO_read_tick_binary_crossing(a, d, i_re) ==
    [a EXCEPT
       !.consume = GrayCounter_tick(a.consume,
                       AsyncFIFO_consume_ce(a, i_re), log2_int(d) + 1),
       !.produce_rdomain = MultiReg_tick(a.produce_rdomain,
                                         a.produce.q_binary),
       !.dat_r = AsyncFIFO_rdport(a, d, i_re)]

\* one tick of clock domain "read"
AsyncFIFO_read_tick(a, d, i_re) ==
    [a EXCEPT
       !.consume = GrayCounter_tick(a.consume,
                       AsyncFIFO_consume_ce(a, i_re), log2_int(d) + 1),
       !.produce_rdomain = MultiReg_tick(a.produce_rdomain, a.produce.q),
       !.dat_r = AsyncFIFO_rdport(a, d, i_re)]

\* ------------------------------------------- interface view of the dut
\* writable / readable / dout / level as the instance exports them
Writable ==
    CASE variant = "SyncFIFO"         -> SyncFIFO_writable(dut, depth)
      [] variant = "SyncFIFOClassic"  -> SyncFIFOClassic_writable(dut, depth)
      [] variant = "SyncFIFOBuffered" -> SyncFIFOBuffered_writable(dut, depth)
      [] variant = "SyncFIFORelaxed"  -> SyncFIFORelaxed_writable(dut, depth)
      [] variant = "AsyncFIFO"        -> AsyncFIFO_writable(dut, depth)

Readable ==
    CASE variant = "SyncFIFO"         -> SyncFIFO_readable(dut)
      [] variant = "SyncFIFOClassic"  -> SyncFIFOClassic_readable(dut)
      [] variant = "SyncFIFOBuffered" -> dut.readable
      [] variant = "SyncFIFORelaxed"  -> SyncFIFORelaxed_readable(dut)
      [] variant = "AsyncFIFO"        -> AsyncFIFO_readable(dut)

Dout ==
    CASE variant = "SyncFIFO"         -> SyncFIFO_dout(dut)
      [] variant = "SyncFIFOClassic"  -> dut.dout_bits
      [] variant = "SyncFIFOBuffered" -> SyncFIFOBuffered_dout(dut)
      [] variant = "SyncFIFORelaxed"  -> SyncFIFORelaxed_dout_bits(dut)
      [] variant = "AsyncFIFO"        -> AsyncFIFO_dout(dut)

Level ==
    CASE variant = "SyncFIFO"         -> dut.level
      [] variant = "SyncFIFOClassic"  -> dut.fifo.level
      [] variant = "SyncFIFOBuffered" -> SyncFIFOBuffered_level(dut)
      [] variant = "SyncFIFORelaxed"  -> SyncFIFORelaxed_level(dut)

\* ------------------------------------------------ history bookkeeping
\* A write is committed iff writable /\ we, a read iff readable /\ re
\* (_FIFOInterface); flush discards what is pending.
Committed(wr, rd, fl, d_in) ==
    /\ pending' = IF fl THEN <<>>
                  ELSE LET p == IF rd THEN SafeTail(pending) ELSE pending
                       IN  IF wr THEN Append(p, d_in) ELSE p
    /\ unread' = IF fl THEN 0
                 ELSE unread + (IF wr THEN 1 ELSE 0) - (IF rd THEN 1 ELSE 0)

\* what the interface showed during the cycle that the tick ends
Sampled ==
    last' = [we |-> we, re |-> re, flush |-> flush,
             writable |-> Writable, readable |-> Readable]

NoTick ==
    [we |-> FALSE, re |-> FALSE, flush |-> FALSE,
     writable |-> FALSE, readable |-> FALSE]

DriveInputs ==
    /\ we' \in BOOLEAN
    /\ re' \in BOOLEAN
    /\ din' \in Data
    /\ flush' \in BOOLEAN

\* ------------------------------------------------------------ actions
SyncFIFOTick ==
    /\ variant = "SyncFIFO"
    /\ dut' = SyncFIFO_tick(dut, depth, we, re, din, flush)
    /\ Committed(Writable /\ we, Readable /\ re, flush, din)
    /\ Sampled
    /\ DriveInputs
    /\ UNCHANGED <<variant, depth, ref>>

SyncFIFOClassicTick ==
    /\ variant = "SyncFIFOClassic"
    /\ dut' = SyncFIFOClassic_tick(dut, depth, we, re, din, flush)
    /\ Committed(Writable /\ we, Readable /\ re, flush, din)
    /\ Sampled
    /\ DriveInputs
    /\ UNCHANGED <<variant, depth, ref>>

SyncFIFOBufferedTick ==
    /\ variant = "SyncFIFOBuffered"
    /\ dut' = SyncFIFOBuffered_tick(dut, depth, we, re, din, flush)
    /\ Committed(Writable /\ we, Readable /\ re, flush, din)
    /\ Sampled
    /\ DriveInputs
    /\ UNCHANGED <<variant, depth, ref>>

SyncFIFORelaxedTick ==
    /\ variant = "SyncFIFORelaxed"
    /\ dut' = SyncFIFORelaxed_tick(dut, depth, we, re, din, flush)
    /\ Committed(Writable /\ we, Readable /\ re, flush, din)
    /\ Sampled
    /\ DriveInputs
    /\ UNCHANGED <<variant, depth, ref>>

SyncVariants ==
    {"SyncFIFO", "SyncFIFOClassic", "SyncFIFOBuffered", "SyncFIFORelaxed"}

Construct(v, d, mem) ==
    CASE v = "SyncFIFO"         -> SyncFIFO_init(d, mem)
      [] v = "SyncFIFOClassic"  -> SyncFIFOClassic_init(d, mem)
      [] v = "SyncFIFOBuffered" -> SyncFIFOBuffered_init(d, mem)
      [] v = "SyncFIFORelaxed"  -> SyncFIFORelaxed_init(d, mem)

Init ==
    /\ variant \in SyncVariants
    /\ depth \in Depths
    /\ \E mem \in [0..(depth - 1) -> Data] : dut = Construct(variant, depth, mem)
    /\ we \in BOOLEAN /\ re \in BOOLEAN /\ din \in Data /\ flush \in BOOLEAN
    /\ ref = <<>>
    /\ pending = <<>>
    /\ unread = 0
    /\ last = NoTick

Next ==
    \/ SyncFIFOTick
    \/ SyncFIFOClassicTick
    \/ SyncFIFOBufferedTick
    \/ SyncFIFORelaxedTick

Spec == Init /\ [][Next]_vars

\* The same instances with the flush pin tied low.
NoFlushInit == Init /\ flush = FALSE

NoFlushNext == Next /\ flush' = FALSE

NoFlushSpec == NoFlushInit /\ [][NoFlushNext]_vars

\* SyncFIFORelaxed(depth) and SyncFIFO(depth+1) on the same clock and the
\* same input pins.
EquivInit ==
    /\ variant = "SyncFIFORelaxed"
    /\ depth \in Depths
    /\ \E mem \in [0..(depth - 1) -> Data] :
           dut = SyncFIFORelaxed_init(depth, mem)
    /\ \E mem \in [0..depth -> Data] : ref = SyncFIFO_init(depth + 1, mem)
    /\ we \in BOOLEAN /\ re \in BOOLEAN /\ din \in Data /\ flush \in BOOLEAN
    /\ pending = <<>>
    /\ unread = 0
    /\ last = NoTick

EquivTick ==
    /\ variant = "SyncFIFORelaxed"
    /\ dut' = SyncFIFORelaxed_tick(dut, depth, we, re, din, flush)
    /\ ref' = SyncFIFO_tick(ref, depth + 1, we, re, din, flush)
    /\ Committed(Writable /\ we, Readable /\ re, flush, din)
    /\ DriveInputs
    /\ UNCHANGED <<variant, depth, last>>

EquivNext == EquivTick

EquivSpec == EquivInit /\ [][EquivNext]_vars

\* AsyncFIFO: the two clock domains tick independently, in any order.
AsyncInit ==
    /\ variant = "AsyncFIFO"
    /\ depth \in AsyncDepths
    /\ \E mem \in [0..(depth - 1) -> Data], r0 \in Data :
           dut = AsyncFIFO_init(depth, mem, r0)
    /\ we = FALSE /\ re = FALSE /\ din = 0 /\ flush = FALSE
    /\ ref = <<>>
    /\ pending = <<>>
    /\ unread = 0
    /\ last = NoTick

AsyncFIFOWriteTick ==
    /\ variant = "AsyncFIFO"
    /\ \E i_we \in BOOLEAN, i_din \in Data :
         /\ dut' = AsyncFIFO_write_tick(dut, depth, i_we, i_din)
         /\ Committed(Writable /\ i_we, FALSE, FALSE, i_din)
    /\ UNCHANGED <<variant, depth, we, re, din, flush, ref, last>>

AsyncFIFOReadTick ==
    /\ variant = "AsyncFIFO"
    /\ \E i_re \in BOOLEAN :
         /\ dut' = AsyncFIFO_read_tick(dut, depth, i_re)
         /\ Committed(FALSE, Readable /\ i_re, FALSE, 0)
    /\ UNCHANGED <<variant, depth, we, re, din, flush, ref, last>>

AsyncNext ==
    \/ AsyncFIFOWriteTick
    \/ AsyncFIFOReadTick

AsyncSpec == AsyncInit /\ [][AsyncNext]_vars

\* AsyncFIFO(depth = 4) in the scenario "three writes, reader idle": the
\* write domain stops asserting we once three writes are committed, the read
\* domain holds re low; the read clock keeps ticking.
BurstInit == AsyncInit /\ depth = 4

BurstWriteTick ==
    /\ variant = "AsyncFIFO"
    /\ \E i_we \in BOOLEAN, i_din \in Data :
         /\ i_we => unread < 3
         /\ dut' = AsyncFIFO_write_tick(dut, depth, i_we, i_din)
         /\ Committed(Writable /\ i_we, FALSE, FALSE, i_din)
    /\ UNCHANGED <<variant, depth, we, re, din, flush, ref, last>>

BurstReadTick ==
    /\ variant = "AsyncFIFO"
    /\ dut' = AsyncFIFO_read_tick(dut, depth, FALSE)
    /\ Committed(FALSE, FALSE, FALSE, 0)
    /\ UNCHANGED <<variant, depth, we, re, din, flush, ref, last>>

BurstNext ==
    \/ BurstWriteTick
    \/ BurstReadTick

BurstSpec ==
    BurstInit /\ [][BurstNext]_vars /\ WF_vars(BurstReadTick)

\* AsyncFIFO with we and re held asserted and both clocks ticking forever.
\* din is held as well and the memory starts uniform: no pointer, enable or
\* flag of AsyncFIFO is computed from a data value.
StreamInit ==
    /\ variant = "AsyncFIFO"
    /\ depth \in AsyncDepths
    /\ \E m0 \in Data, r0 \in Data :
           dut = AsyncFIFO_init(depth, [i \in 0..(depth - 1) |-> m0], r0)
    /\ we = TRUE /\ re = TRUE /\ din \in Data /\ flush = FALSE
    /\ ref = <<>>
    /\ pending = <<>>
    /\ unread = 0
    /\ last = NoTick

StreamWriteTick ==
    /\ variant = "AsyncFIFO"
    /\ dut' = AsyncFIFO_write_tick(dut, depth, we, din)
    /\ Committed(Writable /\ we, FALSE, FALSE, din)
    /\ UNCHANGED <<variant, depth, we, re, din, flush, ref, last>>

StreamReadTick ==
    /\ variant = "AsyncFIFO"
    /\ dut' = AsyncFIFO_read_tick(dut, depth, re)
    /\ Committed(FALSE, Readable /\ re, FALSE, 0)
    /\ UNCHANGED <<variant, depth, we, re, din, flush, ref, last>>

StreamNext ==
    \/ StreamWriteTick
    \/ StreamReadTick

StreamSpec ==
    /\ StreamInit
    /\ [][StreamNext]_vars
    /\ WF_vars(StreamWriteTick)
    /\ WF_vars(StreamReadTick)

\* ------------------------------------------------------------- claims
SyncFIFO_contents(f, d) ==
    [i \in 1..f.level |-> f.storage[(f.consume + i - 1) % d]]

DutTick(i_we, i_re, i_din, i_flush) ==
    CASE variant = "SyncFIFO" ->
           SyncFIFO_tick(dut, depth, i_we, i_re, i_din, i_flush)
      [] variant = "SyncFIFOClassic" ->
           SyncFIFOClassic_tick(dut, depth, i_we, i_re, i_din, i_flush)
      [] variant = "SyncFIFOBuffered" ->
           SyncFIFOBuffered_tick(dut, depth, i_we, i_re, i_din, i_flush)
      [] variant = "SyncFIFORelaxed" ->
           SyncFIFORelaxed_tick(dut, depth, i_we, i_re, i_din, i_flush)

\* pointers, level and valid bits of an instance x of class v
Control(v, x) ==
    CASE v = "SyncFIFO" ->
           <<x.produce, x.consume, x.level>>
      [] v = "SyncFIFOClassic" ->
           <<x.fifo.produce, x.fifo.consume, x.fifo.level>>
      [] v = "SyncFIFOBuffered" ->
           <<x.fifo.fifo.produce, x.fifo.fifo.consume, x.fifo.fifo.level,
             x.readable>>
      [] v = "SyncFIFORelaxed" ->
           <<x.fifo.produce, x.fifo.consume, x.fifo.level,
             x.dout_readable, x.buff_readable>>

\* C1: SyncFIFO with flush tied low: whenever readable is true, dout is the
\* oldest committed-but-unread element; the stored elements are exactly the
\* committed-but-unread ones in write order, so reads return the writes in
\* order with nothing lost and nothing duplicated.
C1_SyncFIFOOrder ==
    variant = "SyncFIFO" =>
        /\ unread = Len(pending)
        /\ Readable <=> pending # <<>>
        /\ Readable => Dout = Head(pending)
        /\ SyncFIFO_contents(dut, depth) = pending

\* a read was committed on the last tick, the produce pointer has wrapped
\* past the end of the storage and the two oldest elements differ
C1_Witness ==
    /\ variant = "SyncFIFO"
    /\ last.re /\ last.readable
    /\ Len(pending) >= 2
    /\ dut.produce < dut.consume
    /\ pending[1] # pending[2]
    /\ Dout = pending[1]

\* C2: SyncFIFO.level stays in [0, depth] and SyncFIFORelaxed.level stays in
\* [0, depth+1], for arbitrary we, re and flush.
C2_OccupancyBound ==
    /\ variant = "SyncFIFO" => dut.level \in 0..depth
    /\ variant = "SyncFIFORelaxed" =>
          /\ dut.fifo.level \in 0..depth
          /\ SyncFIFORelaxed_level(dut) \in 0..(depth + 1)

\* the relaxed wrapper at its upper bound: inner queue full, bypass cell valid
C2_Witness ==
    /\ variant = "SyncFIFORelaxed"
    /\ SyncFIFORelaxed_level(dut) = depth + 1
    /\ last.we /\ last.writable

\* C3: in SyncFIFO, on a tick without flush, we while not writable leaves
\* produce and every storage slot unchanged and does not touch level; re
\* while not readable leaves consume unchanged and does not touch level; the
\* stored elements are always exactly the committed-but-unread ones.
C3_ViolationsAreNoOps ==
    [][(variant = "SyncFIFO" /\ ~flush) =>
         /\ (we /\ ~Writable) =>
               /\ dut'.produce = dut.produce
               /\ dut'.storage = dut.storage
               /\ dut'.level = dut.level - (IF Readable /\ re THEN 1 ELSE 0)
         /\ (re /\ ~Readable) =>
               /\ dut'.consume = dut.consume
               /\ dut'.level = dut.level + (IF Writable /\ we THEN 1 ELSE 0)
         /\ SyncFIFO_contents(dut', depth) = pending'
         /\ Len(pending') = Len(pending) + (IF Writable /\ we THEN 1 ELSE 0)
                                         - (IF Readable /\ re THEN 1 ELSE 0)
      ]_vars

\* a tick has just passed with we asserted against a full queue, and the
\* queue still holds the depth committed elements
C3_Witness ==
    /\ variant = "SyncFIFO"
    /\ last.we /\ ~last.writable /\ ~last.flush /\ ~last.re
    /\ dut.level = depth
    /\ SyncFIFO_contents(dut, depth) = pending
    /\ pending[1] # pending[depth]

\* C4: for SyncFIFO, SyncFIFOBuffered and SyncFIFORelaxed, the state after a
\* flush tick has level 0, readable false, writable true, whatever we, re
\* and din were; a further flush tick leaves pointers, level and valid bits
\* as they are; and readable is only ever true on an element committed after
\* the last flush.
C4_Flush ==
    variant \in {"SyncFIFO", "SyncFIFOBuffered", "SyncFIFORelaxed"} =>
        /\ Readable => (pending # <<>> /\ Dout = Head(pending))
        /\ last.flush =>
              /\ Level = 0 /\ ~Readable /\ Writable
              /\ \A i_we \in BOOLEAN, i_re \in BOOLEAN, i_din \in Data :
                    Control(variant, DutTick(i_we, i_re, i_din, TRUE))
                        = Control(variant, dut)

\* a flush tick on which a write and a read were also committed
C4_Witness ==
    /\ variant = "SyncFIFORelaxed"
    /\ last.flush /\ last.we /\ last.writable /\ last.re /\ last.readable
    /\ pending = <<>>
    /\ Level = 0

\* C5: SyncFIFORelaxed(depth) and SyncFIFO(depth+1), driven from reset by
\* the same we, re, din and flush, show the same writable and readable on
\* every tick and the same dout whenever readable is true.
C5_RelaxedEquivalent ==
    /\ SyncFIFORelaxed_writable(dut, depth) = SyncFIFO_writable(ref, depth + 1)
    /\ SyncFIFORelaxed_readable(dut) = SyncFIFO_readable(ref)
    /\ SyncFIFORelaxed_readable(dut) =>
           SyncFIFORelaxed_dout_bits(dut) = SyncFIFO_dout(ref)

\* both are full (depth+1 elements), with the head in the bypass cell and
\* the second oldest element, a different value, copied to the dout register
C5_Witness ==
    /\ ref.level = depth + 1
    /\ ~SyncFIFORelaxed_writable(dut, depth)
    /\ dut.buff_readable /\ dut.dout_readable
    /\ dut.buff # dut.dout
    /\ SyncFIFO_dout(ref) = dut.buff

\* the elements held by a SyncFIFORelaxed, oldest first: the bypass cell if
\* valid, else the dout register if valid, then the inner queue
SyncFIFORelaxed_contents(r, d) ==
    LET inner == SyncFIFO_contents(r.fifo, d)
    IN  IF r.buff_readable THEN <<r.buff>> \o inner
        ELSE IF r.dout_readable THEN <<r.dout>> \o inner
        ELSE inner

\* C6: SyncFIFORelaxed with flush tied low: whenever readable is true, dout
\* is the oldest committed-but-unread element; a committed write goes to
\* exactly one of the bypass cell and the inner SyncFIFO, and an uncommitted
\* one to neither; the bypass cell (or else the dout register) followed by
\* the inner queue holds exactly the committed-but-unread elements in write
\* order, so nothing overtakes an older element and nothing is delivered
\* twice.
C6_RelaxedOrder ==
    variant = "SyncFIFORelaxed" =>
        /\ unread = Len(pending)
        /\ Readable <=> pending # <<>>
        /\ Readable => Dout = Head(pending)
        /\ SyncFIFORelaxed_contents(dut, depth) = pending
        /\ (Writable /\ we) =>
              (SyncFIFORelaxed_do_shunt(dut, we, re)
                 # SyncFIFO_do_write(dut.fifo, depth,
                       SyncFIFORelaxed_fifo_we(dut, we, re)))
        /\ ~(Writable /\ we) =>
              /\ ~SyncFIFORelaxed_do_shunt(dut, we, re)
              /\ ~SyncFIFO_do_write(dut.fifo, depth,
                      SyncFIFORelaxed_fifo_we(dut, we, re))

\* an element sits in the bypass cell, written through the shunt, while
\* younger, different elements went to the inner queue behind it
C6_Witness ==
    /\ variant = "SyncFIFORelaxed"
    /\ dut.buff_readable /\ dut.fifo.level >= 2
    /\ Len(pending) = dut.fifo.level + 1
    /\ pending[1] # pending[2]
    /\ last.we /\ last.writable
    /\ Dout = pending[1]

\* C7: SyncFIFORelaxed.level equals the number of committed-but-unread
\* elements (writes committed minus reads committed since the last flush).
C7_RelaxedLevelIsUnread ==
    variant = "SyncFIFORelaxed" => SyncFIFORelaxed_level(dut) = unread

\* C8 as stated: with the inner queue empty, a write with re and flush
\* deasserted is visible at dout with readable on the next tick and leaves
\* the inner SyncFIFO unwritten.
C8_BypassInnerEmptyOnly ==
    [][(/\ variant = "SyncFIFORelaxed"
        /\ dut.fifo.level = 0
        /\ we /\ ~re /\ ~flush) =>
         /\ Readable' /\ Dout' = din
         /\ dut'.fifo.level = dut.fifo.level
         /\ dut'.fifo.storage = dut.fifo.storage
      ]_vars

\* C8 amended: with the inner queue empty and readable deasserted (neither
\* the bypass cell nor the dout register holds an unread element), a write
\* with re and flush deasserted is in the bypass cell and visible at dout
\* with readable on the next tick, and the inner SyncFIFO is not written.
C8_Bypass ==
    [][(/\ variant = "SyncFIFORelaxed"
        /\ dut.fifo.level = 0
        /\ ~Readable
        /\ we /\ ~re /\ ~flush) =>
         /\ Readable' /\ Dout' = din
         /\ dut'.buff_readable /\ dut'.buff = din
         /\ dut'.fifo.level = dut.fifo.level
         /\ dut'.fifo.produce = dut.fifo.produce
         /\ dut'.fifo.storage = dut.fifo.storage
      ]_vars

\* the tick after such a write into a wrapper whose inner queue had been in
\* use before: the element is in the bypass cell, the inner queue is empty
C8_Witness ==
    /\ variant = "SyncFIFORelaxed"
    /\ last.we /\ last.writable /\ ~last.re /\ ~last.flush /\ ~last.readable
    /\ dut.buff_readable /\ ~dut.dout_readable
    /\ dut.fifo.level = 0 /\ dut.fifo.produce > 0
    /\ pending = <<dut.buff>>
    /\ dut.buff # dut.dout

\* the elements held by a SyncFIFOBuffered, oldest first: the output
\* register if the latch is set, then the inner queue
SyncFIFOBuffered_contents(b, d) ==
    (IF b.readable THEN <<b.fifo.dout_bits>> ELSE <<>>)
        \o SyncFIFO_contents(b.fifo.fifo, d)

\* C9: SyncFIFOBuffered with flush tied low: whenever the readable latch is
\* true, dout is the oldest committed-but-unread element; the output
\* register (when the latch is set) followed by the inner queue holds
\* exactly the committed-but-unread elements in write order; and while the
\* latch is false a tick with re asserted leaves the same state as a tick
\* with re deasserted.
C9_BufferedOrder ==
    variant = "SyncFIFOBuffered" =>
        /\ unread = Len(pending)
        /\ Readable => (pending # <<>> /\ Dout = Head(pending))
        /\ SyncFIFOBuffered_contents(dut, depth) = pending
        /\ ~Readable =>
              \A i_we \in BOOLEAN, i_din \in Data :
                  SyncFIFOBuffered_tick(dut, depth, i_we, TRUE, i_din, FALSE)
                    = SyncFIFOBuffered_tick(dut, depth, i_we, FALSE, i_din,
                                            FALSE)

\* re was asserted on the last tick while the latch was false; the latch is
\* now set on the oldest element with a different, younger one behind it
C9_Witness ==
    /\ variant = "SyncFIFOBuffered"
    /\ last.re /\ ~last.readable
    /\ Readable
    /\ Len(pending) = 2 /\ pending[1] # pending[2]
    /\ Dout = pending[1]

\* C10: AsyncFIFO, any interleaving of write-domain and read-domain ticks:
\* committed reads never exceed committed writes; writable implies fewer
\* than depth committed-but-unread elements; readable implies at least one;
\* and every committed-but-unread element is still in its storage slot.
C10_AsyncSafety ==
    variant = "AsyncFIFO" =>
        /\ unread >= 0
        /\ unread = Len(pending)
        /\ Writable => unread < depth
        /\ Readable => unread >= 1
        /\ \A i \in 1..Len(pending) :
              dut.storage[(dut.consume.q_binary + i - 1) % depth] = pending[i]

\* the queue is full after reads have been committed: not writable,
\* readable, and the binary produce counter has wrapped around
C10_Witness ==
    /\ variant = "AsyncFIFO"
    /\ unread = depth
    /\ ~Writable /\ Readable
    /\ dut.produce.q_binary < dut.consume.q_binary
    /\ pending[1] # pending[depth]

\* C11: AsyncFIFO, any interleaving of the two clocks: whenever readable is
\* true in the read domain, dout (the data register of the read port, which
\* was loaded from the slot addressed by the next consume value) is the
\* oldest committed-but-unread element, and that element is in its storage
\* slot, so it was stored before the read tick that sampled it; hence the
\* values at committed reads are the committed writes in order.
C11_AsyncOrderFWFT ==
    variant = "AsyncFIFO" =>
        (Readable =>
            /\ pending # <<>>
            /\ Dout = Head(pending)
            /\ dut.storage[dut.consume.q_binary % depth] = Dout)

\* a read has been committed, two different elements are pending and the
\* older one is on dout
C11_Witness ==
    /\ variant = "AsyncFIFO"
    /\ Readable
    /\ dut.consume.q_binary > 0
    /\ Len(pending) >= 2 /\ pending[1] # pending[2]
    /\ Dout = pending[1]

\* binary value of a Gray-coded pointer: bit i is the parity of the Gray
\* bits i and above
RECURSIVE GrayToBinary(_, _)
GrayToBinary(g, w) ==
    IF g = 0 THEN 0 ELSE Xor(g, GrayToBinary(g \div 2, w), w)

\* elements the read side sees available: resynchronized produce pointer
\* minus local consume pointer, both binary, modulo 2*depth
AsyncFIFO_available(a, d) ==
    (GrayToBinary(MultiReg_o(a.produce_rdomain), log2_int(d) + 1)
        - a.consume.q_binary) % (2 * d)

\* C12: AsyncFIFO(depth = 4), three writes committed and no read committed
\* (re low): after every tick the number of elements the read side sees
\* available is at most 3 (and at most what has been committed); and with
\* the read clock ticking, once the three writes are committed that number
\* becomes 3 with readable asserted and stays so, no read being committed.
C12_BurstVisible ==
    /\ [](/\ AsyncFIFO_available(dut, depth) <= 3
          /\ AsyncFIFO_available(dut, depth) <= unread)
    /\ (unread = 3) ~> [](AsyncFIFO_available(dut, depth) = 3 /\ Readable)

\* all three elements are visible to the read side, not all of them equal
C12_Witness ==
    /\ variant = "AsyncFIFO" /\ depth = 4
    /\ unread = 3
    /\ AsyncFIFO_available(dut, depth) = 3
    /\ Readable
    /\ pending[1] # pending[3]

\* C13 as stated: the write side reports full exactly when the Gray produce
\* pointer and the resynchronized Gray consume pointer have an equal top
\* bit, a differing second-top bit and equal remaining low bits.
C13_FullPatternAsStated ==
    variant = "AsyncFIFO" =>
        LET w == log2_int(depth) + 1
            p == dut.produce.q
            c == MultiReg_o(dut.consume_wdomain)
        IN  ~Writable <=> /\ Bit(p, w - 1) = Bit(c, w - 1)
                          /\ Bit(p, w - 2) # Bit(c, w - 2)
                          /\ (p % Pow2(w - 2)) = (c % Pow2(w - 2))

\* C13 amended: the write side reports full exactly when the Gray produce
\* pointer and the resynchronized Gray consume pointer differ in the top
\* bit, differ in the second-top bit and agree in the remaining low bits.
C13_FullPattern ==
    variant = "AsyncFIFO" =>
        LET w == log2_int(depth) + 1
            p == dut.produce.q
            c == MultiReg_o(dut.consume_wdomain)
        IN  ~Writable <=> /\ Bit(p, w - 1) # Bit(c, w - 1)
                          /\ Bit(p, w - 2) # Bit(c, w - 2)
                          /\ (p % Pow2(w - 2)) = (c % Pow2(w - 2))

\* full is reported with pointers that have low bits, after the consume
\* pointer has moved
C13_Witness ==
    /\ variant = "AsyncFIFO"
    /\ depth >= 4
    /\ ~Writable
    /\ MultiReg_o(dut.consume_wdomain) # 0
    /\ unread = depth

\* The writable expression as a function of the two Gray pointers it
\* compares: every pair of (depth_bits+1)-bit values of produce and of the
\* resynchronized consume, for every depth; the result is kept in ref.
FullTestInit ==
    /\ variant = "AsyncFIFO"
    /\ depth \in AsyncDepths
    /\ \E p \in 0..(Pow2(log2_int(depth) + 1) - 1),
          c \in 0..(Pow2(log2_int(depth) + 1) - 1) :
          dut = [AsyncFIFO_init(depth, [i \in 0..(depth - 1) |-> 0], 0)
                   EXCEPT !.produce =
                              [q |-> p,
                               q_binary |->
                                   GrayToBinary(p, log2_int(depth) + 1)],
                          !.consume_wdomain =
                              [k \in 1..MultiRegStages |-> c]]
    /\ we = FALSE /\ re = FALSE /\ din = 0 /\ flush = FALSE
    /\ ref = <<>>
    /\ pending = <<>>
    /\ unread = 0
    /\ last = NoTick

FullTestEval ==
    /\ ref = <<>>
    /\ ref' = <<AsyncFIFO_writable(dut, depth)>>
    /\ UNCHANGED <<variant, depth, dut, we, re, din, flush, pending,
                   unread, last>>

FullTestNext == FullTestEval

FullTestSpec == FullTestInit /\ [][FullTestNext]_vars

\* the general branch of the writable expression (more than two pointer
\* bits), applied whatever the width
AsyncFIFO_writable_general(a, d) ==
    LET w == log2_int(d) + 1
        p == a.produce.q
        c == MultiReg_o(a.consume_wdomain)
    IN  \/ Bit(p, w - 1) = Bit(c, w - 1)
        \/ Bit(p, w - 2) = Bit(c, w - 2)
        \/ (p % Pow2(w - 2)) # (c % Pow2(w - 2))

\* C14: for depth = 2 and every power-of-two depth >= 4, and every pair of
\* Gray values of produce and resynchronized consume, writable is false
\* iff binary(produce) - binary(consume) = depth modulo 2*depth; and what
\* the code computes (the two-bit branch for depth = 2) is the general
\* formula, whose low-bit slice is empty for depth = 2.
C14_WritableAgainstBinary ==
    ref # <<>> =>
        LET w == log2_int(depth) + 1
            pb == GrayToBinary(dut.produce.q, w)
            cb == GrayToBinary(MultiReg_o(dut.consume_wdomain), w)
        IN  /\ ~ref[1] <=> ((pb - cb) % (2 * depth) = depth)
            /\ ref[1] = AsyncFIFO_writable_general(dut, depth)

\* the two-bit branch has reported full for a pair with produce behind
\* consume in binary (the produce counter has wrapped)
C14_Witness ==
    /\ ref = <<FALSE>>
    /\ depth = 2
    /\ GrayToBinary(dut.produce.q, 2)
           < GrayToBinary(MultiReg_o(dut.consume_wdomain), 2)

\* C15: AsyncFIFO with both clocks ticking forever (weak fairness on each)
\* and we and re held asserted: a write is committed infinitely often and a
\* read is committed infinitely often; a full queue becomes writable again
\* and a committed element becomes readable.
C15_StreamLive ==
    /\ []<><<unread' = unread + 1>>_vars
    /\ []<><<unread' = unread - 1>>_vars
    /\ (~Writable) ~> Writable
    /\ (unread > 0) ~> Readable

\* the queue is full and the read side does not see any element yet:
\* neither side can commit on its next tick
C15_Witness ==
    /\ variant = "AsyncFIFO"
    /\ we /\ re
    /\ unread = depth
    /\ ~Writable
    /\ ~Readable

\* C16: SyncFIFO, power-of-two and other depths: produce and consume stay in
\* [0, depth); level is the number of writes committed minus the number of
\* reads committed since the last flush; (produce - consume) mod depth =
\* level mod depth; and a tick that commits both a write and a read leaves
\* level unchanged while both pointers advance by one modulo depth.
C16_LevelAndPointers ==
    variant = "SyncFIFO" =>
        /\ dut.produce \in 0..(depth - 1)
        /\ dut.consume \in 0..(depth - 1)
        /\ dut.level = unread
        /\ (dut.produce - dut.consume) % depth = dut.level % depth
        /\ (Writable /\ we /\ Readable /\ re /\ ~flush) =>
              LET n == SyncFIFO_tick(dut, depth, we, re, din, flush)
              IN  /\ n.level = dut.level
                  /\ n.produce = (dut.produce + 1) % depth
                  /\ n.consume = (dut.consume + 1) % depth

\* depth 3 (not a power of two): the last tick committed a write and a read
\* and took the produce pointer from depth - 1 back to 0
C16_Witness ==
    /\ variant = "SyncFIFO" /\ depth = 3
    /\ last.we /\ last.writable /\ last.re /\ last.readable
    /\ ~last.flush
    /\ dut.produce = 0 /\ dut.consume = 2
    /\ dut.level = 1

\* C17: SyncFIFOClassic: a tick on which re and readable hold loads the dout
\* register with the element that was the oldest unread one of the inner
\* SyncFIFO on that tick; every other tick leaves the dout register as it
\* was; writable, readable and level are the inner SyncFIFO's, which is
\* stepped as a SyncFIFO on the same we, re, din and flush.
C17_ClassicRegister ==
    [][variant = "SyncFIFOClassic" =>
         /\ (re /\ Readable) =>
               /\ pending # <<>>
               /\ SyncFIFO_dout(dut.fifo) = Head(pending)
               /\ dut'.dout_bits = Head(pending)
         /\ ~(re /\ Readable) => dut'.dout_bits = dut.dout_bits
         /\ Writable = SyncFIFO_writable(dut.fifo, depth)
         /\ Readable = SyncFIFO_readable(dut.fifo)
         /\ Level = dut.fifo.level
         /\ dut.fifo.level = unread
         /\ dut'.fifo = SyncFIFO_tick(dut.fifo, depth, we, re, din, flush)
      ]_vars

\* the last tick committed a read: the dout register holds the element
\* read, which differs from the element now at the head of the inner queue
C17_Witness ==
    /\ variant = "SyncFIFOClassic"
    /\ last.re /\ last.readable /\ ~last.flush
    /\ Readable
    /\ dut.dout_bits # SyncFIFO_dout(dut.fifo)
    /\ SyncFIFO_dout(dut.fifo) = Head(pending)

\* C18: SyncFIFOBuffered, on a tick without flush: if the inner stage is
\* readable and the latch is empty or being vacated (readable false or re
\* asserted), the inner read is committed and readable is true after the
\* tick; so a write committed into an empty FIFO is visible to the inner
\* stage after its tick and readable at the output after the next one; and
\* while the inner stage is not empty and re is held, readable stays
\* asserted and each tick delivers the next element.
C18_GreedyPull ==
    [][(variant = "SyncFIFOBuffered" /\ ~flush) =>
         LET inner == dut.fifo.fifo
             pull  == SyncFIFO_readable(inner) /\ (~Readable \/ re)
         IN  /\ pull =>
                   /\ dut'.fifo.fifo.consume = (inner.consume + 1) % depth
                   /\ dut'.fifo.fifo.level
                        = inner.level - 1
                            + (IF Writable /\ we THEN 1 ELSE 0)
                   /\ Readable'
                   /\ Dout' = SyncFIFO_dout(inner)
             /\ (pending = <<>> /\ Writable /\ we) =>
                   /\ pending' = <<din>>
                   /\ SyncFIFO_readable(dut'.fifo.fifo)
                   /\ ~Readable'
             /\ (pending # <<>> /\ ~Readable) =>
                   (Readable' /\ Dout' = Head(pending))
             /\ (Readable /\ re /\ SyncFIFO_readable(inner)) =>
                   /\ Len(pending) >= 2
                   /\ Dout = pending[1]
                   /\ Readable'
                   /\ Dout' = pending[2]
      ]_vars

\* two consecutive deliveries with re held: the last tick committed a read
\* at the output and pulled the next element, which differs from the one
\* still in the inner stage
C18_Witness ==
    /\ variant = "SyncFIFOBuffered"
    /\ last.re /\ last.readable /\ ~last.flush
    /\ Readable /\ re /\ ~flush
    /\ SyncFIFO_readable(dut.fifo.fifo)
    /\ Dout # SyncFIFO_dout(dut.fifo.fifo)

\* C19: SyncFIFOBuffered: the number of committed-but-unread elements is
\* level plus one when the readable latch is set and level otherwise, so
\* the wrapper holds at most depth + 1 elements (and does hold that many),
\* and the exported level, which is the inner SyncFIFO's, does not count
\* the element in the output register.
C19_BufferedOccupancy ==
    variant = "SyncFIFOBuffered" =>
        /\ Level = dut.fifo.fifo.level
        /\ unread = Level + (IF Readable THEN 1 ELSE 0)
        /\ unread = Len(pending)
        /\ unread <= depth + 1

\* depth + 1 elements are held: the inner queue is full and the output
\* register holds one more
C19_Witness ==
    /\ variant = "SyncFIFOBuffered"
    /\ Readable
    /\ Level = depth
    /\ unread = depth + 1
    /\ ~Writable

\* C20: SyncFIFORelaxed: when buff_readable and dout_readable are both set,
\* the dout register holds a copy of the head of the inner SyncFIFO, which
\* is still in the inner queue; when dout_readable is set and buff_readable
\* is not, the dout register holds an element already taken out of the
\* inner queue; so the number of unread elements is the inner level plus
\* one exactly when readable is true (the inner level otherwise), and at
\* most one register holds an element that is absent from the inner
\* storage.
C20_RelaxedRegisters ==
    variant = "SyncFIFORelaxed" =>
        LET inner == SyncFIFO_contents(dut.fifo, depth)
        IN  /\ unread = Len(pending)
            /\ (dut.buff_readable /\ dut.dout_readable) =>
                  /\ dut.fifo.level >= 1
                  /\ dut.dout = SyncFIFO_dout(dut.fifo)
                  /\ pending = <<dut.buff>> \o inner
            /\ (dut.dout_readable /\ ~dut.buff_readable) =>
                  pending = <<dut.dout>> \o inner
            /\ (dut.buff_readable /\ ~dut.dout_readable) =>
                  pending = <<dut.buff>> \o inner
            /\ ~Readable => pending = inner
            /\ Readable <=> (unread = dut.fifo.level + 1)
            /\ ~Readable <=> (unread = dut.fifo.level)

\* both valid bits are set: the bypass cell holds the oldest element and the
\* dout register a copy of the different element at the head of the inner
\* queue
C20_Witness ==
    /\ variant = "SyncFIFORelaxed"
    /\ dut.buff_readable /\ dut.dout_readable
    /\ dut.fifo.level >= 1
    /\ dut.dout # dut.buff
    /\ pending[1] = dut.buff /\ pending[2] = dut.dout

====
